---- MODULE Spec2Model ----
(***************************************************************************)
(* A model of fish_weight_simulation.py (Python 2): the growth formula,    *)
(* the fold simulate_weight, the csv reader read_data, the validator       *)
(* check_sanity, the reporter output, the self-check test() and the        *)
(* command-line entry point.                                                *)
(*                                                                         *)
(* Numbers.  The program computes in IEEE doubles.  The model computes in  *)
(* fixed point: a real x is the integer floor(x * Scale), Scale = 10^6.    *)
(* Products and quotients are computed by parts so that every intermediate *)
(* value fits the 32-bit integers of the model checker.  pow and exp are   *)
(* computed (range reduction and power series), not tabulated.             *)
(***************************************************************************)
EXTENDS Integers, Sequences, FiniteSets, TLC

\* ------------------------------------------------------------ fixed point

\* one unit of the fixed-point representation: 10^-6
Scale == 1000 * 1000

\* the square root of Scale: products are formed from halves of this size
Half == 1000

Abs(x) == IF x < 0 THEN -x ELSE x

\* floor(a * b / Scale) for a, b >= 0, formed by parts
MulNat(a, b) ==
    LET a1 == a \div Half
        a0 == a % Half
        b1 == b \div Half
        b0 == b % Half
        x  == a1 * b0
        y  == a0 * b1
        z  == (a0 * b0) \div Half
    IN  a1 * b1 + (x \div Half) + (y \div Half)
          + (((x % Half) + (y % Half) + z) \div Half)

\* the product of two fixed-point numbers, rounded towards zero
MulFx(a, b) ==
    IF (a < 0) = (b < 0) THEN MulNat(Abs(a), Abs(b))
                         ELSE -MulNat(Abs(a), Abs(b))

\* the n decimal digits of r / b after the point, as an integer (0 <= r < b)
RECURSIVE DivDigits(_, _, _)
DivDigits(r, b, n) ==
    IF n = 0 THEN 0
    ELSE LET d == (r * 10) \div b
             t == DivDigits((r * 10) % b, b, n - 1)
             p == CHOOSE q \in {1, 10, 100, 1000, 10000, 100000} :
                     \E k \in 0..5 : k = n - 1 /\ q = 10^k
         IN  d * p + t

\* floor(a * Scale / b) for a >= 0, b > 0, by long division
DivFx(a, b) == (a \div b) * Scale + DivDigits(a % b, b, 6)

\* 2^k for k >= 0
RECURSIVE Pow2(_)
Pow2(k) == IF k = 0 THEN 1 ELSE 2 * Pow2(k - 1)

\* ln 2 in fixed point
LN2 == 693147

\* sum_{n >= i} r^n / n!, given term = r^(i-1) / (i-1)!, up to the first
\* term that vanishes in fixed point
RECURSIVE ExpSeries(_, _, _)
ExpSeries(r, term, i) ==
    IF term = 0 THEN 0
    ELSE LET t == MulFx(term, r) \div i
         IN  t + ExpSeries(r, t, i + 1)

\* math.exp: e^x = 2^k * e^r with x = k * ln 2 + r, 0 <= r < ln 2
Exp(x) ==
    LET k  == x \div LN2
        r  == x % LN2
        er == Scale + ExpSeries(r, Scale, 1)
    IN  IF k >= 0 THEN er * Pow2(k)
        ELSE IF k < -31 THEN 0
        ELSE er \div Pow2(-k)

\* the exponent k with 2^k <= w / Scale < 2^(k+1), for w > 0
RECURSIVE Log2Floor(_)
Log2Floor(w) ==
    IF w >= 2 * Scale THEN 1 + Log2Floor(w \div 2)
    ELSE IF w < Scale THEN Log2Floor(2 * w) - 1
    ELSE 0

\* sum_{n >= i, n odd} z^n / n, given zn = z^i and z2 = z^2
RECURSIVE AtanhSeries(_, _, _)
AtanhSeries(zn, z2, i) ==
    IF zn = 0 THEN 0
    ELSE (zn \div i) + AtanhSeries(MulFx(zn, z2), z2, i + 2)

\* math.log: ln w = k * ln 2 + ln m with w = 2^k * m, 1 <= m < 2, and
\* ln m = 2 * atanh((m - 1) / (m + 1)); w > 0
Ln(w) ==
    LET k == Log2Floor(w)
        m == IF k >= 0 THEN w \div Pow2(k) ELSE w * Pow2(-k)
        z == DivFx(m - Scale, m + Scale)
    IN  k * LN2 + 2 * AtanhSeries(z, MulFx(z, z), 1)

\* a pow that takes 0 ** b for 1, as it is for b = 0
PowZeroIsOne(w, b) == IF w = 0 THEN Scale ELSE Exp(MulFx(b, Ln(w)))

\* float.__pow__ for a base w >= 0 and an exponent b > 0: 0 ** b is 0,
\* otherwise e^(b * ln w)
Pow(w, b) == IF w = 0 THEN 0 ELSE Exp(MulFx(b, Ln(w)))

\* ------------------------------------------------------------ the formula

\* species constants of formula, in fixed point
alpha == 38000
beta == 666700
tau == 80000

\* a formula that returns the day's growth without the current weight
formula_without_weight(weight_cur, temp_cur) ==
    IF weight_cur < 0
    THEN [err |-> "ValueError", val |-> 0]
    ELSE [err |-> "none",
          val |-> MulFx(MulFx(alpha, Pow(weight_cur, beta)),
                        Exp(MulFx(temp_cur, tau)))]

\* formula(weight_cur, temp_cur): Python 2 raises ValueError for a negative
\* base under a fractional exponent; otherwise
\*   alpha * weight_cur ** beta * exp(temp_cur * tau) + weight_cur,
\* the product formed left to right
formula(weight_cur, temp_cur) ==
    IF weight_cur < 0
    THEN [err |-> "ValueError", val |-> 0]
    ELSE [err |-> "none",
          val |-> MulFx(MulFx(alpha, Pow(weight_cur, beta)),
                        Exp(MulFx(temp_cur, tau))) + weight_cur]

\* ------------------------------------------------------------ text of a file

\* A file is a sequence of tokens: the two separators read_data splits on,
\* and words (maximal runs of other characters).  A word is a decimal
\* literal, carrying the value float() gives it, or any other text.
Comma == [k |-> "comma", v |-> 0]
Newline == [k |-> "newline", v |-> 0]
Text == [k |-> "text", v |-> 0]
Number(n) == [k |-> "number", v |-> n]

\* str.split(sep): the pieces between the occurrences of sep, at least one
RECURSIVE Split(_, _)
Split(s, sep) ==
    IF \A i \in 1..Len(s) : s[i] # sep THEN <<s>>
    ELSE LET i == CHOOSE j \in 1..Len(s) :
                      s[j] = sep /\ \A h \in 1..(j - 1) : s[h] # sep
         IN  <<SubSeq(s, 1, i - 1)>> \o Split(SubSeq(s, i + 1, Len(s)), sep)

\* filter(bool, data): the non-empty strings of data, in order
FilterBool(data) == SelectSeq(data, LAMBDA d : d # <<>>)

\* float(s) accepts a string that is one decimal literal
IsFloat(s) == Len(s) = 1 /\ s[1].k = "number"

\* sep.join(parts), used to lay out the input files
RECURSIVE Join(_, _)
Join(parts, sep) ==
    IF parts = <<>> THEN <<>>
    ELSE IF Len(parts) = 1 THEN parts[1]
    ELSE parts[1] \o <<sep>> \o Join(Tail(parts), sep)

\* an optional value: None, or Some(v)
None == <<>>
Some(v) == <<v>>

\* a read_data that skips the rows it cannot parse and returns the rest
read_data_skips_bad_rows(content) ==
    IF content = None THEN [err |-> "IOError", val |-> <<>>]
    ELSE
    LET data   == FilterBool(Split(content[1], Newline))
        split  == [i \in 1..(Len(data) - 1) |-> Split(data[i + 1], Comma)]
        good   == SelectSeq(split, LAMBDA d : Len(d) >= 3 /\ IsFloat(d[3]))
    IN  IF data = <<>> THEN [err |-> "IndexError", val |-> <<>>]
        ELSE [err |-> "none", val |-> [i \in 1..Len(good) |-> good[i][3][1].v]]

\* read_data(data_file), data_file holding `content` (None: no such file):
\* the exception it raises, or the list it returns
read_data(content) ==
    IF content = None THEN [err |-> "IOError", val |-> <<>>]
    ELSE
    LET data   == FilterBool(Split(content[1], Newline))
        split  == [i \in 1..(Len(data) - 1) |-> Split(data[i + 1], Comma)]
    IN  IF data = <<>> THEN [err |-> "IndexError", val |-> <<>>]
        ELSE IF \E i \in 1..Len(split) : Len(split[i]) < 3
        THEN [err |-> "IndexError", val |-> <<>>]
        ELSE IF \E i \in 1..Len(split) : ~IsFloat(split[i][3])
        THEN [err |-> "ValueError", val |-> <<>>]
        ELSE [err |-> "none",
              val |-> [i \in 1..Len(split) |-> split[i][3][1].v]]

\* a check_sanity that accepts a weight of zero
check_sanity_allows_zero(w, t) ==
    IF ~(w >= 0)
    THEN "AssertionError: Invalid initial weight, should be positive."
    ELSE IF ~(Len(t) > 0)
    THEN "AssertionError: Empty temparature data"
    ELSE "none"

\* a check_sanity without the check of the length
check_sanity_skips_empty(w, t) ==
    IF ~(w > 0)
    THEN "AssertionError: Invalid initial weight, should be positive."
    ELSE "none"

\* check_sanity(data) with data['w0'] = w and data['t'] = t: the assertion
\* that fails, or "none".  The third assert statement asserts a pair
\* (condition, message); Python takes a tuple for true unless it is empty.
check_sanity(w, t) ==
    LET asserted == << \A i \in 1..Len(t) : t[i] > -273 * Scale,
                       "Invalid temperatures, should be larger than -273C" >>
    IN  IF ~(w > 0)
        THEN "AssertionError: Invalid initial weight, should be positive."
        ELSE IF ~(Len(t) > 0)
        THEN "AssertionError: Empty temparature data"
        ELSE IF Len(asserted) = 0
        THEN "AssertionError"
        ELSE "none"

\* '{:9.02f}': a number rounded to hundredths
Round2(v) == (v + 5000) \div 10000

\* '{:>9.0f}': a number rounded to a whole number
Round0(v) == (v + 500000) \div Scale

\* a printed line: its text, and the formatted number in it if any
Line(text, arg) == [text |-> text, arg |-> arg]

\* what output(data) prints
output(initial, final) ==
    << Line("---FISH GROWTH SIMULATION PROGRAM---\n", None),
       Line("Initial weight: {:9.02f} grams", Some(Round2(initial))),
       Line("Final weight:   {:9.02f} grams", Some(Round2(final))),
       Line("which is:       {:>9.0f} times bigger",
            Some(Round0(DivFx(final, initial)))),
       Line("\n---END OF SIMULATION---", None) >>

\* test(): the expected final weight 1858.44736351 and the tolerance 1e-5 of
\* the comparison, in fixed point
answer == 1858447363
tolerance == 10

\* ------------------------------------------------------------ inputs

\* the longest input file, in lines, and the longest temperature list
\* passed to simulate_weight directly
MaxLines == 3
MaxTemps == 3

\* a cell of a csv row: empty, a label, or a decimal literal
Label == <<Text>>
Value(n) == <<Number(n * Scale)>>

\* the lines input files are made of: a blank line, a header (three
\* labels), data rows with a reading in the 3rd column (one with a 4th
\* column, one at absolute zero), and a row of two columns
BlankLine == << <<>> >>
HeaderLine == <<Label, Label, Label>>
Lines ==
    { BlankLine, HeaderLine,
      <<Label, Label, Value(5)>>,
      <<Label, Label, Value(10), Label>>,
      <<Label, Label, Value(-273)>>,
      <<Label, Label>> }

\* sequences over S of length at most n
SeqsUpTo(S, n) == UNION {[1..m -> S] : m \in 0..n}

\* the text of a file laid out as the rows r
Layout(r) == Join([i \in 1..Len(r) |-> Join(r[i], Comma)], Newline)

\* a stand-in for temperature_series.csv: a header and twelve readings
\* whose simulated final weight from 1 gram is the answer test() expects
FixtureTemps ==
    << 60000000, 60000000, 60000000, 60000000, 60000000, 60000000,
       60000000, 60000000, 60000000, 54200000, -42000000, -114200000 >>
FixtureRows ==
    <<HeaderLine>> \o
    [i \in 1..Len(FixtureTemps) |-> <<Label, Label, <<Number(FixtureTemps[i])>> >>]

\* initial weights, in grams: negative, zero, one, a hundred
Weights == {-Scale, 0, Scale, 100 * Scale}

\* temperatures passed to simulate_weight directly
Temps == {5 * Scale, 10 * Scale, -273 * Scale}

\* ------------------------------------------------------------ state

VARIABLES
    entry,            \* what is run: the script ("main"), simulate(...) or
                      \* simulate_weight(...) called by a user of the module
    pc,               \* the statement about to execute
    rows,             \* the data file as laid out by its writer (None: no file)
    file,             \* the text of the data file (None: no such file)
    initial_weight,   \* simulate's argument
    temperature_data, \* the local of test() and of simulate(): None until read
    w0,               \* simulate_weight's arguments
    temperatures,
    caller,           \* who called simulate_weight
    accumulated,      \* reduce's accumulator
    idx,              \* the number of elements reduce has consumed
    calls,            \* the invocations of formula by the current reduce
    final_weight,     \* what simulate_weight returned (None: nothing yet)
    stdout,           \* the lines printed
    error,            \* the exception that ended the run, or "none"
    trace             \* the functions entered, in order

vars == << entry, pc, rows, file, initial_weight, temperature_data, w0,
           temperatures, caller, accumulated, idx, calls, final_weight,
           stdout, error, trace >>

\* the call simulate_weight(w, ts) by `who`: reduce starts from w
Enter(w, ts, who) ==
    /\ w0' = w
    /\ temperatures' = ts
    /\ caller' = who
    /\ accumulated' = w
    /\ idx' = 0
    /\ calls' = <<>>
    /\ pc' = "reduce"

\* an exception nobody catches ends the run
Raise(e) ==
    /\ error' = e
    /\ pc' = "raised"

InitMain ==
    /\ entry = "main"
    /\ pc = "main"
    /\ rows \in {None} \cup {Some(r) : r \in SeqsUpTo(Lines, MaxLines)}
                 \cup {Some(FixtureRows)}
    /\ initial_weight = 0
    /\ w0 = 0 /\ temperatures = <<>> /\ caller = "none"
    /\ trace = <<>>

InitSimulate ==
    /\ entry = "simulate"
    /\ pc = "read_data"
    /\ rows \in {None} \cup {Some(r) : r \in SeqsUpTo(Lines, MaxLines)}
    /\ initial_weight \in Weights
    /\ w0 = 0 /\ temperatures = <<>> /\ caller = "none"
    /\ trace = <<"simulate">>

InitSimulateWeight ==
    /\ entry = "simulate_weight"
    /\ pc = "reduce"
    /\ rows = None
    /\ initial_weight = 0
    /\ w0 \in Weights /\ temperatures \in SeqsUpTo(Temps, MaxTemps)
    /\ caller = "user"
    /\ trace = <<"simulate_weight">>

Init ==
    /\ (InitMain \/ InitSimulate \/ InitSimulateWeight)
    /\ file = IF rows = None THEN None ELSE Some(Layout(rows[1]))
    /\ temperature_data = None
    /\ accumulated = w0
    /\ idx = 0
    /\ calls = <<>>
    /\ final_weight = None
    /\ stdout = <<>>
    /\ error = "none"

\* ------------------------------------------------------------ __main__

\* lines 165-166: print the banner and call test()
MainRunTests ==
    /\ pc = "main"
    /\ stdout' = Append(stdout, Line("RUNNING TESTS ...", None))
    /\ trace' = Append(trace, "test")
    /\ pc' = "test_read_data"
    /\ UNCHANGED << entry, rows, file, initial_weight, temperature_data, w0,
                    temperatures, caller, accumulated, idx, calls,
                    final_weight, error >>

\* lines 156-158 of test(): read the fixture, call simulate_weight(1, ...)
TestReadData ==
    /\ pc = "test_read_data"
    /\ LET r == read_data(file)
       IN  IF r.err # "none"
           THEN /\ Raise(r.err)
                /\ trace' = Append(trace, "read_data")
                /\ UNCHANGED << temperature_data, w0, temperatures, caller,
                                accumulated, idx, calls >>
           ELSE /\ temperature_data' = Some(r.val)
                /\ Enter(Scale, r.val, "test")
                /\ trace' = trace \o <<"read_data", "simulate_weight">>
                /\ UNCHANGED error
    /\ UNCHANGED << entry, rows, file, initial_weight, final_weight, stdout >>

\* a test() whose comparison is never made (assertions stripped)
TestAssertAlwaysPasses ==
    /\ pc = "test_assert"
    /\ pc' = "main_tests_passed"
    /\ UNCHANGED << entry, rows, file, initial_weight, temperature_data, w0,
                    temperatures, caller, accumulated, idx, calls,
                    final_weight, stdout, error, trace >>

\* lines 159-161 of test(): compare the result with the answer
TestAssert ==
    /\ pc = "test_assert"
    /\ IF Abs(final_weight[1] - answer) < tolerance
       THEN pc' = "main_tests_passed" /\ UNCHANGED error
       ELSE Raise("AssertionError: Inaccurate simulation")
    /\ UNCHANGED << entry, rows, file, initial_weight, temperature_data, w0,
                    temperatures, caller, accumulated, idx, calls,
                    final_weight, stdout, trace >>

\* lines 167-169: print that the tests passed and call simulate(1, file)
MainSimulate ==
    /\ pc = "main_tests_passed"
    /\ stdout' = Append(stdout, Line("ALL TESTS PASSED!\n", None))
    /\ initial_weight' = Scale
    /\ temperature_data' = None
    /\ final_weight' = None
    /\ trace' = Append(trace, "simulate")
    /\ pc' = "read_data"
    /\ UNCHANGED << entry, rows, file, w0, temperatures, caller, accumulated,
                    idx, calls, error >>

\* ------------------------------------------------------------ simulate

\* line 53: temperature_data = read_data(data_file)
ReadData ==
    /\ pc = "read_data"
    /\ trace' = Append(trace, "read_data")
    /\ LET r == read_data(file)
       IN  IF r.err # "none"
           THEN Raise(r.err) /\ UNCHANGED temperature_data
           ELSE /\ temperature_data' = Some(r.val)
                /\ pc' = "check_sanity"
                /\ UNCHANGED error
    /\ UNCHANGED << entry, rows, file, initial_weight, w0, temperatures,
                    caller, accumulated, idx, calls, final_weight, stdout >>

\* a simulate that notes check_sanity's failure and carries on
CheckSanityContinues ==
    /\ pc = "check_sanity"
    /\ trace' = Append(trace, "check_sanity")
    /\ error' = check_sanity(initial_weight, temperature_data[1])
    /\ pc' = "simulate_weight"
    /\ UNCHANGED << entry, rows, file, initial_weight, temperature_data, w0,
                    temperatures, caller, accumulated, idx, calls,
                    final_weight, stdout >>

\* lines 56-59: check_sanity({'t': temperature_data, 'w0': initial_weight})
CheckSanity ==
    /\ pc = "check_sanity"
    /\ trace' = Append(trace, "check_sanity")
    /\ LET e == check_sanity(initial_weight, temperature_data[1])
       IN  IF e # "none"
           THEN Raise(e)
           ELSE pc' = "simulate_weight" /\ UNCHANGED error
    /\ UNCHANGED << entry, rows, file, initial_weight, temperature_data, w0,
                    temperatures, caller, accumulated, idx, calls,
                    final_weight, stdout >>

\* line 62: call simulate_weight(initial_weight, temperature_data)
SimulateWeight ==
    /\ pc = "simulate_weight"
    /\ trace' = Append(trace, "simulate_weight")
    /\ Enter(initial_weight, temperature_data[1], "simulate")
    /\ UNCHANGED << entry, rows, file, initial_weight, temperature_data,
                    final_weight, stdout, error >>

\* lines 65-68: output({...})
Output ==
    /\ pc = "output"
    /\ trace' = Append(trace, "output")
    /\ stdout' = stdout \o output(initial_weight, final_weight[1])
    /\ pc' = "done"
    /\ UNCHANGED << entry, rows, file, initial_weight, temperature_data, w0,
                    temperatures, caller, accumulated, idx, calls,
                    final_weight, error >>

\* ------------------------------------------------------------ simulate_weight

\* a fold that adds the current weight to formula's result once more
ReduceStepAddsWeightAgain ==
    /\ pc = "reduce"
    /\ idx < Len(temperatures)
    /\ LET r == formula(accumulated, temperatures[idx + 1])
       IN  /\ calls' = Append(calls, [weight_cur |-> accumulated,
                                      temp_cur |-> temperatures[idx + 1],
                                      err |-> r.err, ret |-> r.val])
           /\ IF r.err # "none"
              THEN Raise(r.err) /\ UNCHANGED << accumulated, idx >>
              ELSE /\ accumulated' = r.val + accumulated
                   /\ idx' = idx + 1
                   /\ UNCHANGED << pc, error >>
    /\ UNCHANGED << entry, rows, file, initial_weight, temperature_data, w0,
                    temperatures, caller, final_weight, stdout, trace >>

\* line 92, one iteration of reduce: the accumulator becomes
\* formula(accumulator, next element)
ReduceStep ==
    /\ pc = "reduce"
    /\ idx < Len(temperatures)
    /\ LET r == formula(accumulated, temperatures[idx + 1])
       IN  /\ calls' = Append(calls, [weight_cur |-> accumulated,
                                      temp_cur |-> temperatures[idx + 1],
                                      err |-> r.err, ret |-> r.val])
           /\ IF r.err # "none"
              THEN Raise(r.err) /\ UNCHANGED << accumulated, idx >>
              ELSE /\ accumulated' = r.val
                   /\ idx' = idx + 1
                   /\ UNCHANGED << pc, error >>
    /\ UNCHANGED << entry, rows, file, initial_weight, temperature_data, w0,
                    temperatures, caller, final_weight, stdout, trace >>

\* a simulate_weight that refuses an empty list
ReduceReturnRejectsEmpty ==
    /\ pc = "reduce"
    /\ idx = Len(temperatures)
    /\ IF temperatures = <<>>
       THEN Raise("InvalidInput") /\ UNCHANGED final_weight
       ELSE /\ final_weight' = Some(accumulated)
            /\ pc' = CASE caller = "test" -> "test_assert"
                       [] caller = "simulate" -> "output"
                       [] OTHER -> "done"
            /\ UNCHANGED error
    /\ UNCHANGED << entry, rows, file, initial_weight, temperature_data, w0,
                    temperatures, caller, accumulated, idx, calls, stdout,
                    trace >>

\* line 92, the sequence is exhausted: reduce returns the accumulator and
\* simulate_weight returns it to its caller
ReduceReturn ==
    /\ pc = "reduce"
    /\ idx = Len(temperatures)
    /\ final_weight' = Some(accumulated)
    /\ pc' = CASE caller = "test" -> "test_assert"
               [] caller = "simulate" -> "output"
               [] OTHER -> "done"
    /\ UNCHANGED << entry, rows, file, initial_weight, temperature_data, w0,
                    temperatures, caller, accumulated, idx, calls, stdout,
                    error, trace >>

Next ==
    \/ MainRunTests
    \/ TestReadData
    \/ TestAssert
    \/ MainSimulate
    \/ ReadData
    \/ CheckSanity
    \/ SimulateWeight
    \/ Output
    \/ ReduceStep
    \/ ReduceReturn

Spec == Init /\ [][Next]_vars

\* the exit status of the script: 1 after an uncaught exception
ExitStatus == IF error # "none" THEN 1 ELSE 0

\* ------------------------------------------------------------ properties

Range(s) == {s[i] : i \in 1..Len(s)}

IsPrefix(a, b) == Len(a) <= Len(b) /\ a = SubSeq(b, 1, Len(a))

\* simulate(...) has been called, and the functions it has entered since
SimulateStarted == "simulate" \in Range(trace)
SimCalls ==
    LET i == CHOOSE j \in 1..Len(trace) : trace[j] = "simulate"
    IN  SubSeq(trace, i + 1, Len(trace))

\* simulate has called check_sanity, and check_sanity has returned or raised
SanityChecked == SimulateStarted /\ "check_sanity" \in Range(SimCalls)

\* output has printed its report
Reported == \E i \in 1..Len(stdout) : stdout[i].arg # None

AbsoluteZero == -273 * Scale

\* C1: simulate_weight(w0, temps) invokes formula once per element, in index
\* order, the first time on w0 and each later time on the previous
\* invocation's result; what it returns is the last invocation's result, and
\* for a one-element list exactly formula(w0, temps[0]).
FoldAppliesFormulaInOrder ==
    caller # "none" =>
      /\ Len(calls) <= Len(temperatures)
      /\ \A k \in 1..Len(calls) :
           /\ calls[k].temp_cur = temperatures[k]
           /\ calls[k].weight_cur = IF k = 1 THEN w0 ELSE calls[k - 1].ret
      /\ (pc \in {"test_assert", "output", "done"} /\ Len(temperatures) >= 1) =>
           /\ Len(calls) = Len(temperatures)
           /\ final_weight = Some(calls[Len(calls)].ret)
           /\ Len(temperatures) = 1 =>
                final_weight = Some(formula(w0, temperatures[1]).val)

FoldAppliesFormulaInOrderWitness ==
    /\ pc = "done"
    /\ w0 = 100 * Scale
    /\ temperatures = <<5 * Scale, 10 * Scale, 5 * Scale>>
    /\ final_weight # None
    /\ final_weight[1] > calls[3].weight_cur
    /\ calls[3].weight_cur > calls[2].weight_cur

\* C2 (as claimed): once check_sanity has run on a positive weight and a
\* non-empty series holding a temperature <= -273, it has raised, and
\* simulate has reached neither simulate_weight nor output.
CheckSanityRejectsColdTemperatures ==
    ( /\ SanityChecked
      /\ initial_weight > 0
      /\ temperature_data # None
      /\ temperature_data[1] # <<>>
      /\ \E i \in 1..Len(temperature_data[1]) :
            temperature_data[1][i] <= AbsoluteZero )
    => /\ error # "none"
       /\ "simulate_weight" \notin Range(SimCalls)
       /\ ~Reported

\* the message of check_sanity's first assertion
WeightMessage == "AssertionError: Invalid initial weight, should be positive."

\* C3: check_sanity raises on the weight check exactly when initial_weight
\* <= 0, whatever the temperature series.
CheckSanityRejectsNonPositiveWeight ==
    SanityChecked =>
      /\ initial_weight <= 0 => (error = WeightMessage /\ pc = "raised")
      /\ initial_weight > 0 => error # WeightMessage

CheckSanityRejectsNonPositiveWeightWitness ==
    /\ SanityChecked
    /\ initial_weight = 0
    /\ Len(temperature_data[1]) = 2
    /\ error = WeightMessage

\* the message of its second assertion
EmptyMessage == "AssertionError: Empty temparature data"

\* C4: check_sanity raises on an empty series, and simulate never calls
\* simulate_weight with an empty series.
SimulateNeverFoldsEmptySeries ==
    /\ (SanityChecked /\ initial_weight > 0 /\ temperature_data[1] = <<>>)
         => (error = EmptyMessage /\ pc = "raised")
    /\ (SimulateStarted /\ "simulate_weight" \in Range(SimCalls))
         => (caller = "simulate" /\ Len(temperatures) >= 1)

SimulateNeverFoldsEmptySeriesWitness ==
    /\ SanityChecked
    /\ initial_weight > 0
    /\ temperature_data = Some(<<>>)
    /\ error = EmptyMessage
    /\ SimCalls = <<"read_data", "check_sanity">>

\* the steps of simulate, in the order of its statements
SimulateOrder == <<"read_data", "check_sanity", "simulate_weight", "output">>

\* C5: simulate enters read_data, check_sanity, simulate_weight, output in
\* that order; when read_data or check_sanity raises, the run ends there:
\* simulate_weight is not entered, nothing is computed or reported, and no
\* step follows.
SimulateIsFailFast ==
    SimulateStarted =>
      /\ IsPrefix(SimCalls, SimulateOrder)
      /\ ( /\ error # "none"
           /\ SimCalls # <<>>
           /\ SimCalls[Len(SimCalls)] \in {"read_data", "check_sanity"} )
         => /\ pc = "raised"
            /\ final_weight = None
            /\ ~Reported
            /\ ~ENABLED Next
      /\ (error # "none" /\ SimCalls = <<"read_data">>) => temperature_data = None

SimulateIsFailFastWitness ==
    /\ entry = "simulate"
    /\ SimCalls = <<"read_data", "check_sanity">>
    /\ error # "none"
    /\ pc = "raised"

\* reduce(formula, ts, w) as a function of its arguments (0 where formula
\* raises)
RECURSIVE FoldLeft(_, _)
FoldLeft(w, ts) ==
    IF ts = <<>> THEN w
    ELSE IF w < 0 THEN 0
    ELSE FoldLeft(formula(w, Head(ts)).val, Tail(ts))

\* the fixture passes the self-check: it can be read, and the final weight
\* simulated from 1 gram is within the tolerance of the answer
SelfCheckPasses ==
    LET r == read_data(file)
    IN  /\ r.err = "none"
        /\ Abs(FoldLeft(Scale, r.val) - answer) < tolerance

\* C6: the script runs test() before simulate(); simulate() starts only if
\* the self-check passes, and if it does not pass the script ends with a
\* non-zero exit status and simulate() is never started.
SelfCheckGuardsSimulate ==
    entry = "main" =>
      /\ trace # <<>> => trace[1] = "test"
      /\ SimulateStarted =>
           /\ SelfCheckPasses
           /\ IsPrefix(<<"test", "read_data", "simulate_weight", "simulate">>, trace)
      /\ ~SelfCheckPasses =>
           /\ ~SimulateStarted
           /\ pc \notin {"main_tests_passed", "done"}
           /\ pc = "raised" => (ExitStatus # 0 /\ ~ENABLED Next)

SelfCheckGuardsSimulateWitness ==
    /\ entry = "main"
    /\ pc = "done"
    /\ SimulateStarted
    /\ Reported

DataRows == Tail(SelectSeq(rows[1], LAMBDA l : l # BlankLine))
HasHeader == rows # None /\ SelectSeq(rows[1], LAMBDA l : l # BlankLine) # <<>>
WellFormed(row) == Len(row) >= 3 /\ row[3] # <<>> /\ row[3][1].k = "number"

\* C8: once read_data has run, either it has returned the complete series
\* (one reading per non-blank row after the header, from the 3rd column, in
\* file order), every such row being well formed, or it has raised; it has
\* raised if a data row lacks a 3rd column or holds no number there, and
\* then no series is bound and simulate has gone no further.
ReadDataIsAllOrNothing ==
    "read_data" \in Range(trace) =>
      /\ temperature_data # None =>
           /\ HasHeader
           /\ \A i \in 1..Len(DataRows) : WellFormed(DataRows[i])
           /\ temperature_data[1] =
                [i \in 1..Len(DataRows) |-> DataRows[i][3][1].v]
      /\ (HasHeader /\ \A i \in 1..Len(DataRows) : WellFormed(DataRows[i]))
           => temperature_data # None \/ pc = "read_data"
      /\ (HasHeader /\ \E i \in 1..Len(DataRows) : ~WellFormed(DataRows[i]))
           => /\ error \in {"IndexError", "ValueError"}
              /\ pc = "raised"
              /\ temperature_data = None
              /\ final_weight = None
              /\ ~Reported
              /\ SimulateStarted => SimCalls = <<"read_data">>

ReadDataIsAllOrNothingWitness ==
    /\ entry = "simulate"
    /\ HasHeader
    /\ Len(DataRows) = 2
    /\ WellFormed(DataRows[1])
    /\ ~WellFormed(DataRows[2])
    /\ error = "IndexError"
    /\ pc = "raised"

EmptyFoldReturnsInitialWeight ==
    (entry = "simulate_weight" /\ temperatures = <<>>) =>
      /\ calls = <<>>
      /\ error = "none"
      /\ pc \in {"reduce", "done"}
      /\ pc = "reduce" => ENABLED ReduceReturn
      /\ pc = "done" => final_weight = Some(w0)

EmptyFoldReturnsInitialWeightWitness ==
    /\ entry = "simulate_weight"
    /\ temperatures = <<>>
    /\ w0 < 0
    /\ pc = "done"
    /\ final_weight = Some(w0)

====
